---- MODULE Spec2Model ----
(***************************************************************************)
(* nfexporter: a Prometheus exporter for nfcapd collectors.                *)
(*                                                                         *)
(* main.go holds the exporter (Describe / Collect), the signal cleanup     *)
(* handler and main.  The ingestion side (socketConf, metricList, the      *)
(* per-connection handlers that store a report under the global mutex)     *)
(* lives in a file that is not part of the sources at hand; it is modelled *)
(* from the specification (sections 4.1, 4.2 and 5).                       *)
(***************************************************************************)
EXTENDS Integers, Sequences, FiniteSets, TLC

VARIABLES
    mainpc,      \* position of main()
    exitStatus,  \* <<status>> once the process has exited, <<>> while it runs
    registered,  \* the descriptors the registry got from Describe at MustRegister
    described,   \* the descriptors a Describe call in progress has sent
    listener,    \* the ingestion listener: "none", "listening" or "closed"
    sockFile,    \* TRUE while the socket path exists in the file system
    sigchan,     \* how many signals wait in the channel c of SetupCloseHandler
    closerpc,    \* position of the goroutine SetupCloseHandler starts
    started,     \* which parts of the process main has started so far
    sigSeen,     \* TRUE once a signal was delivered after the socket was bound
    mutex,       \* the global *sync.Mutex: "nil", "unlocked" or "locked"
    holder,      \* who locked the mutex (a sync.Mutex has no owner: bookkeeping)
    metricList,  \* the store: ident -> slice of metric records
    hpc,         \* position of each connection handler
    frame,       \* the report a handler has decoded and is storing
    lastUpsert,  \* <<ident, exporterID>> -> report of the last completed upsert
    cpc,         \* position of each Collect call
    identsLeft,  \* Collect: keys of metricList the outer range has not visited
    curIdent,    \* Collect: `ident` of the outer range
    idx,         \* Collect: position of the inner range in metricList[ident]
    metric,      \* Collect: `metric`, the inner range's copy of the element
    sampIdx,     \* Collect: which of the 12 sends of the loop body is next
    ch,          \* Collect: how many samples wait in the channel the registry
                 \* handed to it (they are the last ones of emitted)
    emitted,     \* the samples the Collect call in progress has sent so far
    storeAtLock  \* the store as it was when this Collect call got the lock

vars == <<mainpc, exitStatus, registered, described, listener, sockFile, sigchan,
          closerpc, started, sigSeen, mutex, holder, metricList, hpc, frame,
          lastUpsert, cpc, identsLeft, curIdent, idx, metric, sampIdx, ch,
          emitted, storeAtLock>>

\* what outlives the process (the file system) or records its history
osVars == <<listener, sockFile, started, sigSeen>>
closerVars == <<sigchan, closerpc>>
mainVars == <<mainpc, exitStatus, registered, described, osVars, closerVars>>
handlerVars == <<hpc, frame, lastUpsert>>
collectVars == <<cpc, identsLeft, curIdent, idx, metric, sampIdx, ch, emitted,
                 storeAtLock>>

None == "none"

\* no metric record (a nil *metric, an unset local)
NoMetric == [ident |-> None]

(***************************************************************************)
(* Bounds of the model.                                                    *)
(***************************************************************************)
\* number of successive reports (sets of counter values) the collector of the
\* busy pair sends; the other pairs are reported with one set of values
NumReports == 2
\* capacity of the channel the registry hands to Collect
ChanCap == 1

Collectors == {"c1", "c2"}      \* concurrent pull requests
Handlers == {"h1", "h2"}        \* concurrent collector connections
\* the (ident, exporterID) pairs collectors report for: two exporters under one
\* ident, and a second ident
Pairs == {<<"live", 7>>, <<"live", 10>>, <<"lab", 7>>}
\* the pair whose counters change from report to report
BusyPair == <<"live", 10>>
\* an ident that holds the byte 0xFF: a Go string that is not valid UTF-8
BadIdent == "bad-0xFF"
BadPair == <<BadIdent, 7>>
AllPairs == Pairs \cup {BadPair}

(***************************************************************************)
(* The metric descriptors.                                                 *)
(***************************************************************************)
namespace == "nfsen"

BuildFQName(ns, subsystem, name) == ns \o "_" \o subsystem \o "_" \o name

uptime ==
    [fqName |-> BuildFQName(namespace, "collector", "uptime"),
     variableLabels |-> <<"version">>]

flowsReceived ==
    [fqName |-> BuildFQName(namespace, "collector", "flows"),
     variableLabels |-> <<"ident", "exporter", "proto">>]

packetsReceived ==
    [fqName |-> BuildFQName(namespace, "collector", "packets"),
     variableLabels |-> <<"ident", "exporter", "proto">>]

bytesReceived ==
    [fqName |-> BuildFQName(namespace, "collector", "bytes"),
     variableLabels |-> <<"ident", "exporter", "proto">>]

\* Describe: the four descriptors, in the order they are sent
Describe == <<uptime, flowsReceived, packetsReceived, bytesReceived>>

(***************************************************************************)
(* Metric records and the reports collectors send.                         *)
(***************************************************************************)
FlowFields == {"numFlows_tcp", "numFlows_udp", "numFlows_icmp", "numFlows_other"}
PacketFields == {"numPackets_tcp", "numPackets_udp", "numPackets_icmp",
                 "numPackets_other"}
ByteFields == {"numBytes_tcp", "numBytes_udp", "numBytes_icmp", "numBytes_other"}
CounterFields == FlowFields \cup PacketFields \cup ByteFields

\* counter number j of report number k, and the report number of a counter value
CounterOf(k, j) == 100 * k + j
ReportNumberOf(v) == v \div 100

\* report number k of a collector for (ident, id): every counter has its own
\* value, and the values of two reports differ in every counter
Report(ident, id, k) ==
    [ident |-> ident, exporterID |-> id, uptime |-> 60 * k,
     numFlows_tcp |-> CounterOf(k, 1), numFlows_udp |-> CounterOf(k, 2),
     numFlows_icmp |-> CounterOf(k, 3), numFlows_other |-> CounterOf(k, 4),
     numPackets_tcp |-> CounterOf(k, 11), numPackets_udp |-> CounterOf(k, 12),
     numPackets_icmp |-> CounterOf(k, 13), numPackets_other |-> CounterOf(k, 14),
     numBytes_tcp |-> CounterOf(k, 21), numBytes_udp |-> CounterOf(k, 22),
     numBytes_icmp |-> CounterOf(k, 23), numBytes_other |-> CounterOf(k, 24)]

Reports ==
    {Report(p[1], p[2], 1) : p \in Pairs}
        \cup {Report(BusyPair[1], BusyPair[2], k) : k \in 1..NumReports}

\* the reports of a single collector that repeats its first report
LiveReports == {Report(BusyPair[1], BusyPair[2], 1)}

\* the reports of a collector whose ident is not valid UTF-8, next to those of
\* one with a valid ident
LabelReports == {Report(BadPair[1], BadPair[2], 1), Report("live", 7, 1)}

\* a record just created for (ident, id), nothing reported into it yet
ZeroMetric(ident, id) ==
    [f \in DOMAIN Report(ident, id, 0) |->
        IF f = "ident" THEN ident ELSE IF f = "exporterID" THEN id ELSE 0]

\* old with the fields `fields` taken from new
Merge(old, new, fields) ==
    [f \in DOMAIN old |-> IF f \in fields THEN new[f] ELSE old[f]]

(***************************************************************************)
(* Conversions used by Collect.                                            *)
(***************************************************************************)
Digit(d) == CASE d = 0 -> "0" [] d = 1 -> "1" [] d = 2 -> "2" [] d = 3 -> "3"
              [] d = 4 -> "4" [] d = 5 -> "5" [] d = 6 -> "6" [] d = 7 -> "7"
              [] d = 8 -> "8" [] d = 9 -> "9"

RECURSIVE FormatUint(_, _)
\* strconv.FormatUint(n, base) for base <= 10: most significant digit first
FormatUint(n, base) ==
    IF n < base THEN Digit(n)
    ELSE FormatUint(n \div base, base) \o Digit(n % base)

\* float64(n) of a uint64: exact for n < 2^53, which covers every counter of
\* the model (the reports' values are below 2^31)
Float64(n) == n

(***************************************************************************)
(* Collect: the body of the inner loop.                                    *)
(***************************************************************************)
\* utf8.ValidString(s), for the strings of the model
ValidString(s) == s # BadIdent

\* what MustNewConstMetric yields when it panics
Panic == [desc |-> "panic"]

\* prometheus.MustNewConstMetric(desc, valueType, value, labelValues...):
\* NewConstMetric fails when the number of label values is not that of the
\* descriptor's variable labels or a label value is not valid UTF-8, and the
\* Must variant panics on the error
MustNewConstMetric(desc, valueType, value, labelValues) ==
    IF \/ Len(labelValues) # Len(desc.variableLabels)
       \/ \E i \in 1..Len(labelValues) : ~ValidString(labelValues[i])
    THEN Panic
    ELSE [desc |-> desc.fqName, valueType |-> valueType, value |-> value,
          labels |-> labelValues]

\* SendTable with the last send labeled "icmp" instead of "other"
SendTableDupLabel ==
    << <<flowsReceived, "numFlows_tcp", "tcp">>,
       <<flowsReceived, "numFlows_udp", "udp">>,
       <<flowsReceived, "numFlows_icmp", "icmp">>,
       <<flowsReceived, "numFlows_other", "other">>,
       <<packetsReceived, "numPackets_tcp", "tcp">>,
       <<packetsReceived, "numPackets_udp", "udp">>,
       <<packetsReceived, "numPackets_icmp", "icmp">>,
       <<packetsReceived, "numPackets_other", "other">>,
       <<bytesReceived, "numBytes_tcp", "tcp">>,
       <<bytesReceived, "numBytes_udp", "udp">>,
       <<bytesReceived, "numPackets_icmp", "icmp">>,
       <<bytesReceived, "numPackets_other", "icmp">> >>

\* the 12 sends of the loop body in program order: the descriptor, the field
\* of `metric` whose value is sent, and the proto label
SendTable ==
    << <<flowsReceived, "numFlows_tcp", "tcp">>,
       <<flowsReceived, "numFlows_udp", "udp">>,
       <<flowsReceived, "numFlows_icmp", "icmp">>,
       <<flowsReceived, "numFlows_other", "other">>,
       <<packetsReceived, "numPackets_tcp", "tcp">>,
       <<packetsReceived, "numPackets_udp", "udp">>,
       <<packetsReceived, "numPackets_icmp", "icmp">>,
       <<packetsReceived, "numPackets_other", "other">>,
       <<bytesReceived, "numBytes_tcp", "tcp">>,
       <<bytesReceived, "numBytes_udp", "udp">>,
       <<bytesReceived, "numPackets_icmp", "icmp">>,
       <<bytesReceived, "numPackets_other", "other">> >>

NumSends == Len(SendTable)

\* the sample that send number i of the loop body puts on the channel
Sample(ident, m, i) ==
    LET exporterStr == FormatUint(m.exporterID, 10)
        row == SendTable[i]
    IN  MustNewConstMetric(row[1], "counter", Float64(m[row[2]]),
                           <<ident, exporterStr, row[3]>>)

(***************************************************************************)
(* The store as the ingestion side keeps it.                               *)
(***************************************************************************)
\* position of the record of exporter id in the slice ms, 0 when there is none
IndexOf(ms, id) ==
    IF \E i \in 1..Len(ms) : ms[i].exporterID = id
    THEN CHOOSE i \in 1..Len(ms) : ms[i].exporterID = id
    ELSE 0

MetricsOf(store, ident) == IF ident \in DOMAIN store THEN store[ident] ELSE <<>>

\* the store with the fields `fields` of the record of (m.ident, m.exporterID)
\* taken from m; the record is created when the pair was never seen
StoreFields(store, m, fields) ==
    LET ms == MetricsOf(store, m.ident)
        i == IndexOf(ms, m.exporterID)
        ms2 == IF i = 0
               THEN Append(ms, Merge(ZeroMetric(m.ident, m.exporterID), m, fields))
               ELSE [ms EXCEPT ![i] = Merge(ms[i], m, fields)]
    IN  (m.ident :> ms2) @@ store

\* every record of the store, as a set
Records(store) ==
    UNION {{store[i][j] : j \in 1..Len(store[i])} : i \in DOMAIN store}

(***************************************************************************)
(* Initial state: the process has parsed its flags and built the exporter. *)
(***************************************************************************)
Init ==
    /\ mainpc = "register"
    /\ exitStatus = <<>>
    /\ registered = <<>>
    /\ described = <<>>
    /\ listener = "none"
    /\ sockFile = FALSE
    /\ sigchan = 0
    /\ closerpc = "off"
    /\ started = {}
    /\ sigSeen = FALSE
    /\ mutex = "nil"
    /\ holder = None
    /\ metricList = <<>>
    /\ hpc = [h \in Handlers |-> "off"]
    /\ frame = [h \in Handlers |-> NoMetric]
    /\ lastUpsert = [p \in AllPairs |-> NoMetric]
    /\ cpc = [c \in Collectors |-> "idle"]
    /\ identsLeft = [c \in Collectors |-> {}]
    /\ curIdent = [c \in Collectors |-> None]
    /\ idx = [c \in Collectors |-> 0]
    /\ metric = [c \in Collectors |-> NoMetric]
    /\ sampIdx = [c \in Collectors |-> 1]
    /\ ch = [c \in Collectors |-> 0]
    /\ emitted = [c \in Collectors |-> <<>>]
    /\ storeAtLock = [c \in Collectors |-> <<>>]

Running == exitStatus = <<>>

\* the process ends with the given status: its goroutines and its memory are
\* gone; the socket path stays in the file system as it is
Exit(status) ==
    /\ mainpc' = "exited"
    /\ exitStatus' = <<status>>
    /\ described' = <<>>
    /\ sigchan' = 0
    /\ closerpc' = "off"
    /\ UNCHANGED <<listener, sockFile>>
    /\ mutex' = "nil"
    /\ holder' = None
    /\ metricList' = <<>>
    /\ hpc' = [h \in Handlers |-> "off"]
    /\ frame' = [h \in Handlers |-> NoMetric]
    /\ lastUpsert' = [p \in AllPairs |-> NoMetric]
    /\ cpc' = [c \in Collectors |-> "idle"]
    /\ identsLeft' = [c \in Collectors |-> {}]
    /\ curIdent' = [c \in Collectors |-> None]
    /\ idx' = [c \in Collectors |-> 0]
    /\ metric' = [c \in Collectors |-> NoMetric]
    /\ sampIdx' = [c \in Collectors |-> 1]
    /\ ch' = [c \in Collectors |-> 0]
    /\ emitted' = [c \in Collectors |-> <<>>]
    /\ storeAtLock' = [c \in Collectors |-> <<>>]

(***************************************************************************)
(* main                                                                    *)
(***************************************************************************)
\* prometheus.MustRegister(exporter): the registry calls Describe
MainRegister ==
    /\ Running /\ mainpc = "register"
    /\ registered' = Describe
    /\ mainpc' = "newmutex"
    /\ UNCHANGED <<exitStatus, described, osVars, closerVars, mutex, holder,
                   metricList, handlerVars, collectVars>>

\* MainNewMutex without the assignment (mutex stays nil)
MainNoMutex ==
    /\ Running /\ mainpc = "newmutex"
    /\ mainpc' = "open"
    /\ UNCHANGED <<exitStatus, registered, described, osVars, closerVars, mutex,
                   holder, metricList, handlerVars, collectVars>>

\* mutex = new(sync.Mutex)
MainNewMutex ==
    /\ Running /\ mainpc = "newmutex"
    /\ mutex' = "unlocked"
    /\ mainpc' = "open"
    /\ UNCHANGED <<exitStatus, registered, described, osVars, closerVars, holder,
                   metricList, handlerVars, collectVars>>

\* MainOpen with the error of Open() ignored
MainOpenIgnoreError ==
    /\ Running /\ mainpc = "open"
    /\ \E ok \in BOOLEAN :
          /\ mainpc' = "setupclose"
          /\ listener' = IF ok THEN "listening" ELSE listener
          /\ sockFile' = IF ok THEN TRUE ELSE sockFile
          /\ started' = IF ok THEN started \cup {"bound"} ELSE started
          /\ UNCHANGED <<exitStatus, described, closerVars, mutex, holder,
                         metricList, handlerVars, collectVars>>
    /\ UNCHANGED <<registered, sigSeen>>

\* socketHandler.Open(): binds the socket, or fails and log.Fatal ends the process
MainOpen ==
    /\ Running /\ mainpc = "open"
    /\ \E ok \in BOOLEAN :
          IF ok
          THEN /\ mainpc' = "setupclose"
               /\ listener' = "listening"
               /\ sockFile' = TRUE
               /\ started' = started \cup {"bound"}
               /\ UNCHANGED <<exitStatus, described, closerVars, mutex, holder,
                              metricList, handlerVars, collectVars>>
          ELSE Exit(1) /\ UNCHANGED started
    /\ UNCHANGED <<registered, sigSeen>>

\* SetupCloseHandler(socketHandler): signal.Notify(c, os.Interrupt, SIGTERM)
\* and the goroutine that waits on c
MainSetupCloseHandler ==
    /\ Running /\ mainpc = "setupclose"
    /\ mainpc' = "run"
    /\ closerpc' = "wait"
    /\ started' = started \cup {"closehandler"}
    /\ UNCHANGED <<exitStatus, registered, described, listener, sockFile, sigSeen,
                   sigchan, mutex, holder, metricList, handlerVars, collectVars>>

\* socketHandler.Run(): starts the accept loop and returns
MainRun ==
    /\ Running /\ mainpc = "run"
    /\ mainpc' = "listen"
    /\ started' = started \cup {"run"}
    /\ UNCHANGED <<exitStatus, registered, described, listener, sockFile, sigSeen,
                   closerVars, mutex, holder, metricList, handlerVars, collectVars>>

\* http.ListenAndServe: serves until it fails; log.Fatal then ends the process
MainListenAndServe ==
    /\ Running /\ mainpc \in {"listen", "serving"}
    /\ \E ok \in BOOLEAN :
          IF ok /\ mainpc = "listen"
          THEN /\ mainpc' = "serving"
               /\ UNCHANGED <<exitStatus, described, listener, sockFile,
                              closerVars, mutex, holder, metricList, handlerVars,
                              collectVars>>
          ELSE Exit(1)
    /\ started' = started \cup {"http"}
    /\ UNCHANGED <<registered, sigSeen>>

\* the accept loop runs from Run() until the listener is closed
Accepting == Running /\ "run" \in started /\ listener = "listening"
Serving == Running /\ mainpc = "serving"

(***************************************************************************)
(* Connection handlers (ingestion side)                                    *)
(***************************************************************************)
\* the accept loop accepts a connection and starts its handler
HandlerAccept(h) ==
    /\ Accepting /\ hpc[h] = "off"
    /\ hpc' = [hpc EXCEPT ![h] = "read"]
    /\ UNCHANGED <<mainVars, mutex, holder, metricList, frame, lastUpsert,
                   collectVars>>

\* a report frame has arrived on the connection: the handler goes on to store
\* it.  Nothing looks at what the frame holds before the upsert has the lock,
\* so the content is drawn there.  A handler that Close() has told to finish
\* reads no further frame.
HandlerRead(h) ==
    /\ Running /\ hpc[h] = "read"
    /\ listener # "closed"
    /\ hpc' = [hpc EXCEPT ![h] = "lock"]
    /\ UNCHANGED <<mainVars, mutex, holder, metricList, frame, lastUpsert,
                   collectVars>>

\* the connection ends (the collector hung up, or Close() told the handler to
\* finish): the handler returns
HandlerQuit(h) ==
    /\ Running /\ hpc[h] = "read"
    /\ hpc' = [hpc EXCEPT ![h] = "off"]
    /\ UNCHANGED <<mainVars, mutex, holder, metricList, frame, lastUpsert,
                   collectVars>>

\* upsert: mutex.Lock(), with the decoded report m in hand; Lock on a nil
\* *sync.Mutex is a nil dereference, which ends the process
HandlerLockOf(h, reports) ==
    /\ Running /\ hpc[h] = "lock"
    /\ IF mutex = "nil"
       THEN Exit(2) /\ UNCHANGED <<registered, started, sigSeen>>
       ELSE /\ mutex = "unlocked"
            /\ mutex' = "locked" /\ holder' = h
            /\ \E m \in reports : frame' = [frame EXCEPT ![h] = m]
            /\ hpc' = [hpc EXCEPT ![h] = "store1"]
            /\ UNCHANGED <<mainVars, metricList, lastUpsert, collectVars>>

\* the collectors send reports with valid idents
HandlerLock(h) == HandlerLockOf(h, Reports)

\* one collector repeats its report
HandlerLockLive(h) == HandlerLockOf(h, LiveReports)

\* among the collectors is one whose ident is not valid UTF-8
HandlerLockLabels(h) == HandlerLockOf(h, LabelReports)

\* upsert: the record of the pair is found or created and the first part of
\* the report is written
HandlerStoreFirst(h) ==
    /\ Running /\ hpc[h] = "store1"
    /\ metricList' = StoreFields(metricList, frame[h], FlowFields \cup PacketFields)
    /\ hpc' = [hpc EXCEPT ![h] = "store2"]
    /\ UNCHANGED <<mainVars, mutex, holder, frame, lastUpsert, collectVars>>

\* upsert: the rest of the report is written
HandlerStoreRest(h) ==
    /\ Running /\ hpc[h] = "store2"
    /\ metricList' = StoreFields(metricList, frame[h], ByteFields \cup {"uptime"})
    /\ hpc' = [hpc EXCEPT ![h] = "unlock"]
    /\ UNCHANGED <<mainVars, mutex, holder, frame, lastUpsert, collectVars>>

\* upsert: mutex.Unlock(); the upsert is complete
HandlerUnlock(h) ==
    /\ Running /\ hpc[h] = "unlock"
    /\ mutex' = "unlocked" /\ holder' = None
    /\ lastUpsert' = [lastUpsert EXCEPT
                         ![<<frame[h].ident, frame[h].exporterID>>] = frame[h]]
    /\ frame' = [frame EXCEPT ![h] = NoMetric]
    /\ hpc' = [hpc EXCEPT ![h] = "read"]
    /\ UNCHANGED <<mainVars, metricList, collectVars>>

(***************************************************************************)
(* Exporter.Collect, called by the registry for each pull request          *)
(***************************************************************************)
\* the HTTP handler gathers: the registry starts a Collect call on a new channel
CollectCall(c) ==
    /\ Serving /\ cpc[c] = "idle"
    /\ cpc' = [cpc EXCEPT ![c] = "lock"]
    /\ ch' = [ch EXCEPT ![c] = 0]
    /\ emitted' = [emitted EXCEPT ![c] = <<>>]
    /\ UNCHANGED <<mainVars, mutex, holder, metricList, handlerVars, identsLeft,
                   curIdent, idx, metric, sampIdx, storeAtLock>>

\* CollectLock without the wait for the mutex (a Collect that does not lock)
CollectLockNoWait(c) ==
    /\ Running /\ cpc[c] = "lock"
    /\ mutex' = "locked" /\ holder' = c
    /\ storeAtLock' = [storeAtLock EXCEPT ![c] = metricList]
    /\ identsLeft' = [identsLeft EXCEPT ![c] = DOMAIN metricList]
    /\ curIdent' = [curIdent EXCEPT ![c] = None]
    /\ idx' = [idx EXCEPT ![c] = 0]
    /\ cpc' = [cpc EXCEPT ![c] = "range"]
    /\ UNCHANGED <<mainVars, metricList, handlerVars, metric, sampIdx, ch, emitted>>

\* mutex.Lock(), and the outer range starts over the keys of metricList; Lock
\* on a nil *sync.Mutex is a nil dereference, which ends the process
CollectLock(c) ==
    /\ Running /\ cpc[c] = "lock"
    /\ IF mutex = "nil"
       THEN Exit(2) /\ UNCHANGED <<registered, started, sigSeen>>
       ELSE /\ mutex = "unlocked"
            /\ mutex' = "locked" /\ holder' = c
            /\ storeAtLock' = [storeAtLock EXCEPT ![c] = metricList]
            /\ identsLeft' = [identsLeft EXCEPT ![c] = DOMAIN metricList]
            /\ curIdent' = [curIdent EXCEPT ![c] = None]
            /\ idx' = [idx EXCEPT ![c] = 0]
            /\ cpc' = [cpc EXCEPT ![c] = "range"]
            /\ UNCHANGED <<mainVars, metricList, handlerVars, metric, sampIdx, ch,
                           emitted>>

\* the two range statements: the next element of the current slice, else the
\* next key of the map (in any order), else the loops are over
CollectRange(c) ==
    /\ Running /\ cpc[c] = "range"
    /\ IF curIdent[c] # None /\ idx[c] < Len(MetricsOf(metricList, curIdent[c]))
       THEN /\ idx' = [idx EXCEPT ![c] = idx[c] + 1]
            /\ metric' = [metric EXCEPT ![c] = metricList[curIdent[c]][idx[c] + 1]]
            /\ sampIdx' = [sampIdx EXCEPT ![c] = 1]
            /\ cpc' = [cpc EXCEPT ![c] = "send"]
            /\ UNCHANGED <<identsLeft, curIdent>>
       ELSE IF identsLeft[c] # {}
       THEN /\ \E i \in identsLeft[c] :
                  /\ curIdent' = [curIdent EXCEPT ![c] = i]
                  /\ identsLeft' = [identsLeft EXCEPT ![c] = identsLeft[c] \ {i}]
            /\ idx' = [idx EXCEPT ![c] = 0]
            /\ UNCHANGED <<metric, sampIdx, cpc>>
       ELSE /\ cpc' = [cpc EXCEPT ![c] = "unlock"]
            /\ curIdent' = [curIdent EXCEPT ![c] = None]
            /\ idx' = [idx EXCEPT ![c] = 0]
            /\ UNCHANGED <<identsLeft, metric, sampIdx>>
    /\ UNCHANGED <<mainVars, mutex, holder, metricList, handlerVars, ch, emitted,
                   storeAtLock>>

\* CollectSend that also resets the counter it has just exported
CollectSendReset(c) ==
    /\ Running /\ cpc[c] = "send"
    /\ ch[c] < ChanCap
    /\ LET s == Sample(curIdent[c], metric[c], sampIdx[c])
       IN  /\ ch' = [ch EXCEPT ![c] = ch[c] + 1]
           /\ emitted' = [emitted EXCEPT ![c] = Append(emitted[c], s)]
    /\ metricList' = [metricList EXCEPT
                         ![curIdent[c]][idx[c]][SendTable[sampIdx[c]][2]] = 0]
    /\ IF sampIdx[c] < NumSends
       THEN /\ sampIdx' = [sampIdx EXCEPT ![c] = sampIdx[c] + 1]
            /\ UNCHANGED <<cpc, metric>>
       ELSE /\ sampIdx' = [sampIdx EXCEPT ![c] = 1]
            /\ metric' = [metric EXCEPT ![c] = NoMetric]
            /\ cpc' = [cpc EXCEPT ![c] = "range"]
    /\ UNCHANGED <<mainVars, mutex, holder, handlerVars, identsLeft, curIdent, idx,
                   storeAtLock>>

\* ch <- prometheus.MustNewConstMetric(...): one of the 12 sends of the loop
\* body; a send blocks while the channel is full
CollectSend(c) ==
    /\ Running /\ cpc[c] = "send"
    /\ LET s == Sample(curIdent[c], metric[c], sampIdx[c])
       IN  IF s = Panic
           THEN \* the panic unwinds a goroutine of the registry that nothing
                \* recovers: the process ends with status 2
                Exit(2) /\ UNCHANGED <<registered, started, sigSeen>>
           ELSE /\ ch[c] < ChanCap
                /\ ch' = [ch EXCEPT ![c] = ch[c] + 1]
                /\ emitted' = [emitted EXCEPT ![c] = Append(emitted[c], s)]
                /\ IF sampIdx[c] < NumSends
                   THEN /\ sampIdx' = [sampIdx EXCEPT ![c] = sampIdx[c] + 1]
                        /\ UNCHANGED <<cpc, metric>>
                   ELSE /\ sampIdx' = [sampIdx EXCEPT ![c] = 1]
                        /\ metric' = [metric EXCEPT ![c] = NoMetric]
                        /\ cpc' = [cpc EXCEPT ![c] = "range"]
                /\ UNCHANGED <<mainVars, mutex, holder, metricList, handlerVars,
                               identsLeft, curIdent, idx, storeAtLock>>

\* CollectUnlock without the Unlock (a Collect that returns with the lock held)
CollectUnlockNoRelease(c) ==
    /\ Running /\ cpc[c] = "unlock"
    /\ cpc' = [cpc EXCEPT ![c] = "idle"]
    /\ emitted' = [emitted EXCEPT ![c] = <<>>]
    /\ storeAtLock' = [storeAtLock EXCEPT ![c] = <<>>]
    /\ UNCHANGED <<mainVars, mutex, holder, metricList, handlerVars, identsLeft,
                   curIdent, idx, metric, sampIdx, ch>>

\* mutex.Unlock() and the return of Collect; unlocking an unlocked mutex is a
\* fatal runtime error
CollectUnlock(c) ==
    /\ Running /\ cpc[c] = "unlock"
    /\ IF mutex = "locked"
       THEN /\ mutex' = "unlocked" /\ holder' = None
            /\ cpc' = [cpc EXCEPT ![c] = "idle"]
            /\ emitted' = [emitted EXCEPT ![c] = <<>>]
            /\ storeAtLock' = [storeAtLock EXCEPT ![c] = <<>>]
            /\ UNCHANGED <<mainpc, exitStatus, described, listener, sockFile,
                           closerVars>>
            /\ UNCHANGED <<metricList, handlerVars, identsLeft, curIdent, idx,
                           metric, sampIdx, ch>>
       ELSE Exit(2)
    /\ UNCHANGED <<registered, started, sigSeen>>

\* the registry's gatherer takes a sample off the channel
Consume(c) ==
    /\ Running /\ ch[c] > 0
    /\ ch' = [ch EXCEPT ![c] = ch[c] - 1]
    /\ UNCHANGED <<mainVars, mutex, holder, metricList, handlerVars, cpc, identsLeft,
                   curIdent, idx, metric, sampIdx, emitted, storeAtLock>>

(***************************************************************************)
(* Describe, called again by the registry after the registration           *)
(***************************************************************************)
\* DescribeCall with an output that depends on the store
DescribeCallFromStore ==
    /\ Running /\ registered # <<>> /\ described = <<>>
    /\ described' = IF metricList = <<>> THEN <<uptime>> ELSE Describe
    /\ UNCHANGED <<mainpc, exitStatus, registered, osVars, closerVars, mutex, holder,
                   metricList, handlerVars, collectVars>>

\* Describe(ch): the four sends
DescribeCall ==
    /\ Running /\ registered # <<>> /\ described = <<>>
    /\ described' = Describe
    /\ UNCHANGED <<mainpc, exitStatus, registered, osVars, closerVars, mutex, holder,
                   metricList, handlerVars, collectVars>>

\* the registry has taken the descriptors of the call
DescribeDone ==
    /\ Running /\ described # <<>>
    /\ described' = <<>>
    /\ UNCHANGED <<mainpc, exitStatus, registered, osVars, closerVars, mutex, holder,
                   metricList, handlerVars, collectVars>>

(***************************************************************************)
(* Signals and the cleanup goroutine of SetupCloseHandler                  *)
(***************************************************************************)
\* an interrupt or termination signal reaches the process.  Once
\* signal.Notify has run it is queued on c (capacity 1; one that finds c full,
\* or arrives after the goroutine took one, changes nothing and is left out).
\* Before that the default action applies: the process is killed (143 is
\* what a shell reports for a process killed by SIGTERM).
Signal ==
    /\ Running
    /\ IF "closehandler" \in started
       THEN /\ sigchan = 0 /\ closerpc = "wait"
            /\ sigchan' = 1
            /\ sigSeen' = TRUE
            /\ UNCHANGED <<mainpc, exitStatus, registered, described, listener,
                           sockFile, started, closerpc, mutex, holder, metricList,
                           handlerVars, collectVars>>
       ELSE /\ Exit(143)
            /\ sigSeen' = ("bound" \in started)
            /\ UNCHANGED <<registered, started>>

\* <-c, and the Printf that follows
CloserReceive ==
    /\ Running /\ closerpc = "wait" /\ sigchan > 0
    /\ sigchan' = sigchan - 1
    /\ closerpc' = "close"
    /\ UNCHANGED <<mainpc, exitStatus, registered, described, osVars, mutex, holder,
                   metricList, handlerVars, collectVars>>

\* CloserClose without the call (a cleanup that forgets socketHandler.Close())
CloserNoClose ==
    /\ Running /\ closerpc = "close"
    /\ closerpc' = "remove"
    /\ UNCHANGED <<mainpc, exitStatus, registered, described, osVars, sigchan,
                   mutex, holder, metricList, handlerVars, collectVars>>

\* socketHandler.Close() is called: the listener stops accepting and the
\* handlers are told to finish
CloserClose ==
    /\ Running /\ closerpc = "close"
    /\ listener' = "closed"
    /\ closerpc' = "closing"
    /\ UNCHANGED <<mainpc, exitStatus, registered, described, sockFile, started,
                   sigSeen, sigchan, mutex, holder, metricList, handlerVars,
                   collectVars>>

\* Close() returns: the accept loop and every handler have ended, the socket
\* is unbound and its path removed
CloseReturn ==
    /\ Running /\ closerpc = "closing"
    /\ \A h \in Handlers : hpc[h] = "off"
    /\ sockFile' = FALSE
    /\ closerpc' = "remove"
    /\ UNCHANGED <<mainpc, exitStatus, registered, described, listener, started,
                   sigSeen, sigchan, mutex, holder, metricList, handlerVars,
                   collectVars>>

\* os.Remove(*socketPath)
CloserRemove ==
    /\ Running /\ closerpc = "remove"
    /\ sockFile' = FALSE
    /\ closerpc' = "exit"
    /\ UNCHANGED <<mainpc, exitStatus, registered, described, listener, started,
                   sigSeen, sigchan, mutex, holder, metricList, handlerVars,
                   collectVars>>

\* os.Exit(0)
CloserExit ==
    /\ Running /\ closerpc = "exit"
    /\ Exit(0)
    /\ UNCHANGED <<registered, started, sigSeen>>

(***************************************************************************)
(* The specification                                                       *)
(***************************************************************************)
\* the steps of the signal and of the cleanup goroutine
ShutdownNext ==
    \/ Signal
    \/ CloserReceive
    \/ CloserClose
    \/ CloseReturn
    \/ CloserRemove
    \/ CloserExit

\* the steps of main, of the handlers (but the start of an upsert) and of
\* Collect
CoreNext ==
    \/ MainRegister
    \/ MainNewMutex
    \/ MainOpen
    \/ MainSetupCloseHandler
    \/ MainRun
    \/ MainListenAndServe
    \/ \E h \in Handlers : HandlerAccept(h)
    \/ \E h \in Handlers : HandlerRead(h)
    \/ \E h \in Handlers : HandlerQuit(h)
    \/ \E h \in Handlers : HandlerStoreFirst(h)
    \/ \E h \in Handlers : HandlerStoreRest(h)
    \/ \E h \in Handlers : HandlerUnlock(h)
    \/ \E c \in Collectors : CollectCall(c)
    \/ \E c \in Collectors : CollectLock(c)
    \/ \E c \in Collectors : CollectRange(c)
    \/ \E c \in Collectors : CollectSend(c)
    \/ \E c \in Collectors : CollectUnlock(c)
    \/ \E c \in Collectors : Consume(c)

\* every step but the start of an upsert
OtherNext ==
    \/ CoreNext
    \/ ShutdownNext

Next ==
    \/ OtherNext
    \/ \E h \in Handlers : HandlerLock(h)

Spec == Init /\ [][Next]_vars

\* collectors report cumulative totals: the first report of a pair is number
\* 1, and a later one repeats the number of the one before or is the next
CumulativeReports ==
    \A h \in Handlers :
        (frame'[h] # frame[h] /\ frame'[h] # NoMetric) =>
            LET last == lastUpsert[<<frame'[h].ident, frame'[h].exporterID>>]
                k == ReportNumberOf(frame'[h].numFlows_tcp)
            IN  IF last = NoMetric THEN k = 1
                ELSE k \in {ReportNumberOf(last.numFlows_tcp),
                            ReportNumberOf(last.numFlows_tcp) + 1}

NextCumulative ==
    \/ OtherNext
    \/ \E h \in Handlers : HandlerLock(h) /\ CumulativeReports

SpecCumulative == Init /\ [][NextCumulative]_vars

\* runs without a signal in which the registry calls Describe again at any
\* time after the registration
NextDescribe ==
    \/ CoreNext
    \/ \E h \in Handlers : HandlerLock(h)
    \/ DescribeCall
    \/ DescribeDone

SpecDescribe == Init /\ [][NextDescribe]_vars

\* runs without a signal in which a collector reports under an ident that is
\* not valid UTF-8
NextLabels ==
    \/ CoreNext
    \/ \E h \in Handlers : HandlerLockLabels(h)

SpecLabels == Init /\ [][NextLabels]_vars

\* runs without a signal under fair scheduling.  Every goroutine that can take
\* a step takes one in the end (weak fairness); a goroutine waiting in
\* mutex.Lock() gets the mutex if it is free again and again (strong
\* fairness): a sync.Mutex hands the lock to a waiter that has waited for
\* more than a millisecond (starvation mode).  Nothing obliges pull requests
\* to arrive, the HTTP server to fail or a connection to end.
NextLive ==
    \/ CoreNext
    \/ \E h \in Handlers : HandlerLockLive(h)

Fairness ==
    /\ \A h \in Handlers :
          /\ SF_vars(HandlerLockLive(h))
          /\ WF_vars(HandlerStoreFirst(h))
          /\ WF_vars(HandlerStoreRest(h))
          /\ WF_vars(HandlerUnlock(h))
    /\ \A c \in Collectors :
          /\ SF_vars(CollectLock(c))
          /\ WF_vars(CollectRange(c))
          /\ WF_vars(CollectSend(c))
          /\ WF_vars(CollectUnlock(c))
          /\ WF_vars(Consume(c))

SpecLive == Init /\ [][NextLive]_vars /\ Fairness

(***************************************************************************)
(* Vocabulary of the properties                                            *)
(***************************************************************************)
Kinds == {"flows", "packets", "bytes"}
Protos == {"tcp", "udp", "icmp", "other"}

\* the name under which the samples of a kind are exposed
MetricName(kind) == "nfsen_collector_" \o kind

\* the record field that holds the counter of a kind and protocol class
FieldOf(kind, proto) ==
    CASE kind = "flows" -> "numFlows_" \o proto
      [] kind = "packets" -> "numPackets_" \o proto
      [] kind = "bytes" -> "numBytes_" \o proto

\* the decimal strings of the exporter ids of the model
DecimalOf(id) == CASE id = 7 -> "7" [] id = 10 -> "10"

\* the Collect call c has run its loops to the end: every sample is sent
LoopsDone(c) == cpc[c] = "unlock"

\* the Collect call c is between its Lock and its Unlock
InCollect(c) == cpc[c] \in {"range", "send", "unlock"}

\* positions in emitted[c] of the samples labeled with the pair p
SamplesOf(c, p) ==
    {i \in 1..Len(emitted[c]) :
        /\ Len(emitted[c][i].labels) >= 2
        /\ emitted[c][i].labels[1] = p[1]
        /\ emitted[c][i].labels[2] = DecimalOf(p[2])}

PairOfRecord(r) == <<r.ident, r.exporterID>>

(***************************************************************************)
(* Properties of Collect's output                                          *)
(***************************************************************************)
\* C1: every 'bytes' sample with proto "icmp" (or "other") carries the icmp
\* (or other) byte counter of the record it is labeled with, never a packet
\* counter.
C1_BytesFromByteFields ==
    \A c \in Collectors : \A i \in 1..Len(emitted[c]) :
        LET s == emitted[c][i] IN
        (s.desc = MetricName("bytes") /\ s.labels[3] \in {"icmp", "other"}) =>
            \E r \in Records(storeAtLock[c]) :
                /\ s.labels[1] = r.ident
                /\ s.labels[2] = DecimalOf(r.exporterID)
                /\ s.value = r[FieldOf("bytes", s.labels[3])]

\* C2: when Collect has run its loops, every record of the store has exactly
\* 12 samples, one per kind and protocol class, each labeled with the ident,
\* the decimal exporter id and the class, and carrying the field of that kind
\* and class.
C2_TwelveSamplesPerRecord ==
    \A c \in Collectors : LoopsDone(c) =>
        \A r \in Records(storeAtLock[c]) :
            /\ Cardinality(SamplesOf(c, PairOfRecord(r))) = 12
            /\ \A kind \in Kinds, proto \in Protos :
                  \E i \in SamplesOf(c, PairOfRecord(r)) :
                      /\ emitted[c][i].desc = MetricName(kind)
                      /\ emitted[c][i].valueType = "counter"
                      /\ emitted[c][i].labels = <<r.ident, DecimalOf(r.exporterID), proto>>
                      /\ emitted[c][i].value = r[FieldOf(kind, proto)]

\* C3: when Collect has run its loops, every record of the store has exactly
\* one uptime gauge sample, labeled by the ident and carrying the uptime, and
\* the uptime descriptor the registry got from Describe is labeled by ident.
C3_UptimeSamplePerRecord ==
    \A c \in Collectors : LoopsDone(c) =>
        \A r \in Records(storeAtLock[c]) :
            /\ \E d \in 1..Len(registered) :
                  /\ registered[d].fqName = MetricName("uptime")
                  /\ registered[d].variableLabels = <<"ident">>
            /\ Cardinality({i \in 1..Len(emitted[c]) :
                               /\ emitted[c][i].desc = MetricName("uptime")
                               /\ emitted[c][i].valueType = "gauge"
                               /\ emitted[c][i].labels = <<r.ident>>
                               /\ emitted[c][i].value = r.uptime}) = 1

(***************************************************************************)
(* Properties of Collect against concurrent upserts                        *)
(***************************************************************************)
\* C4: no torn records: the counter samples one Collect call has emitted for a
\* pair all carry values of one and the same report, and that report is one
\* whose upsert has completed.
C4_NoTornRecords ==
    \A c \in Collectors : \A p \in Pairs :
        SamplesOf(c, p) # {} =>
            /\ lastUpsert[p] # NoMetric
            /\ \E m \in Reports :
                  /\ PairOfRecord(m) = p
                  /\ \A i \in SamplesOf(c, p) :
                        ReportNumberOf(emitted[c][i].value)
                            = ReportNumberOf(m.numFlows_tcp)

\* a Collect call has emitted all the samples of two records or more while a
\* handler holding a frame waits for the lock
C4_Witness ==
    \E c \in Collectors, h \in Handlers :
        /\ LoopsDone(c)
        /\ Len(emitted[c]) >= 2 * NumSends
        /\ hpc[h] = "lock"

\* C5: between its Lock and its Unlock a Collect call sees one store state: no
\* upsert takes effect, and once the loops are over the samples emitted are
\* the rendering of exactly that state, every record once.
C5_OneStoreState ==
    \A c \in Collectors :
        /\ InCollect(c) => metricList = storeAtLock[c]
        /\ LoopsDone(c) =>
              /\ Len(emitted[c]) = NumSends * Cardinality(Records(storeAtLock[c]))
              /\ {emitted[c][i] : i \in 1..Len(emitted[c])}
                    = {Sample(r.ident, r, i) :
                          r \in Records(storeAtLock[c]), i \in 1..NumSends}

\* a Collect call has emitted the samples of the three records of the store
\* while both handlers wait for the lock
C5_Witness ==
    \E c \in Collectors :
        /\ LoopsDone(c)
        /\ Cardinality(Records(storeAtLock[c])) = Cardinality(Pairs)
        /\ Len(emitted[c]) = NumSends * Cardinality(Pairs)
        /\ \A h \in Handlers : hpc[h] = "lock"

\* C6: Collect never is at a send to the channel while it holds the store
\* lock.
C6_NoSendUnderLock ==
    \A c \in Collectors : ~(cpc[c] = "send" /\ holder = c /\ mutex = "locked")

\* C7: last write wins: every sample a Collect call emits for a pair carries a
\* value of the report of the last completed upsert of that pair, and the tcp
\* flows sample carries exactly that report's tcp flow counter.
C7_LastWriteWins ==
    \A c \in Collectors : \A p \in Pairs : \A i \in SamplesOf(c, p) :
        LET s == emitted[c][i] IN
        /\ lastUpsert[p] # NoMetric
        /\ ReportNumberOf(s.value) = ReportNumberOf(lastUpsert[p].numFlows_tcp)
        /\ (s.desc = MetricName("flows") /\ s.labels[3] = "tcp") =>
              s.value = lastUpsert[p].numFlows_tcp

\* under SpecCumulative report 2 of a pair is stored only over its report 1: a
\* Collect call has emitted the tcp flows of report 2
C7_Witness ==
    \E c \in Collectors : \E i \in 1..Len(emitted[c]) :
        /\ emitted[c][i].desc = MetricName("flows")
        /\ emitted[c][i].labels[3] = "tcp"
        /\ emitted[c][i].value = CounterOf(2, 1)

(***************************************************************************)
(* Properties of the store and of Collect's effect on it                   *)
(***************************************************************************)
\* an upsert is between its first write and its Unlock
Upserting(h) == hpc[h] \in {"store1", "store2", "unlock"}

\* C8: the store holds at most one record per (ident, exporterID); when no
\* upsert is in progress it holds exactly one record per pair that was ever
\* upserted; and no Collect call emits two samples of the same metric with the
\* same label values (seen once the call has sent all its samples).
C8_OneRecordPerPair ==
    /\ \A i \in DOMAIN metricList : \A j, k \in 1..Len(metricList[i]) :
          /\ metricList[i][j].ident = i
          /\ j # k => metricList[i][j].exporterID # metricList[i][k].exporterID
    /\ (\A h \in Handlers : ~Upserting(h)) =>
          /\ {PairOfRecord(r) : r \in Records(metricList)}
                = {p \in Pairs : lastUpsert[p] # NoMetric}
          /\ Cardinality(Records(metricList))
                = Cardinality({p \in Pairs : lastUpsert[p] # NoMetric})
    /\ \A c \in Collectors : LoopsDone(c) =>
          \A i, j \in 1..Len(emitted[c]) :
              (/\ emitted[c][i].desc = emitted[c][j].desc
               /\ emitted[c][i].labels = emitted[c][j].labels) => i = j

\* the two connections have upserted every pair of the model between them,
\* and a Collect call has emitted the samples of all the records
C8_Witness ==
    /\ \A p \in Pairs : lastUpsert[p] # NoMetric
    /\ \A h \in Handlers : hpc[h] \in {"read", "lock"}
    /\ \E c \in Collectors :
          LoopsDone(c) /\ Len(emitted[c]) = NumSends * Cardinality(Pairs)

\* C9: a Collect call on an empty store sends no sample, holds the lock it is
\* about to release (so that its Unlock does not fail), and a Collect call
\* that has returned does not hold the lock; the process never dies of an
\* Unlock of an unlocked mutex.
C9_EmptyStore ==
    /\ exitStatus # <<2>>
    /\ \A c \in Collectors :
          /\ (LoopsDone(c) /\ DOMAIN storeAtLock[c] = {}) =>
                (emitted[c] = <<>> /\ mutex = "locked" /\ holder = c)
          /\ cpc[c] \in {"idle", "lock"} => holder # c

\* a Collect call has run its loops over the empty store, before any report
\* was stored
C9_Witness ==
    \E c \in Collectors :
        /\ LoopsDone(c)
        /\ DOMAIN storeAtLock[c] = {}
        /\ DOMAIN metricList = {}
        /\ \A p \in Pairs : lastUpsert[p] = NoMetric

\* C10: no step of a Collect call changes the store: from its Lock to its
\* return the set of records and every field of every record stay as they are.
C10_CollectKeepsStore ==
    [][\A c \in Collectors :
          (InCollect(c) /\ holder = c /\ exitStatus' = <<>>) =>
              /\ metricList' = metricList
              /\ (cpc'[c] = "idle" => metricList' = storeAtLock[c])]_vars

\* a Collect call is about to return from a store that holds records
C10_Witness ==
    \E c \in Collectors :
        /\ LoopsDone(c)
        /\ Len(emitted[c]) = NumSends * Cardinality(Pairs)
        /\ metricList = storeAtLock[c]

\* C11: every Describe call, at the registration and at any later time, sends
\* the same four descriptors (uptime, flows, packets, bytes, in this order)
\* whatever the store holds, and the step leaves the mutex, its holder and
\* the store as they were.
C11_DescribeFixed ==
    [][LET four == <<uptime, flowsReceived, packetsReceived, bytesReceived>>
       IN  /\ (registered' # registered) =>
                 /\ registered' = four
                 /\ UNCHANGED <<mutex, holder, metricList>>
           /\ (described' # described /\ described' # <<>>) =>
                 /\ described' = four
                 /\ UNCHANGED <<mutex, holder, metricList>>]_vars

\* a Describe call has run while the store held records and a Collect call
\* held the lock
C11_Witness ==
    /\ described # <<>>
    /\ metricList # <<>>
    /\ \E c \in Collectors : InCollect(c) /\ holder = c

\* the samples a Collect call owes for the records it found whose labels can
\* all be rendered
Renderable(r) == ValidString(r.ident)

\* C12: a record whose ident cannot be rendered as a label costs only its own
\* samples: the process does not end with the status of a panic, and a
\* Collect call whose loops are over has sent the twelve samples of every
\* renderable record it found in the store.
C12_RenderErrorSkipsSample ==
    /\ exitStatus # <<2>>
    /\ \A c \in Collectors :
          LoopsDone(c) =>
             \A r \in Records(storeAtLock[c]) :
                Renderable(r) =>
                   \A i \in 1..NumSends :
                      \E n \in 1..Len(emitted[c]) :
                         emitted[c][n] = Sample(r.ident, r, i)

\* C13: while the socket is not bound nothing else of the process is started:
\* no cleanup goroutine, no accept loop, no handler, no HTTP server and no
\* Collect call; a process that ends without having bound the socket (Open
\* failed) ends with a status other than 0; and the HTTP server is started
\* only in a process that has bound the socket.
C13_OpenFailureIsFatal ==
    /\ ("bound" \notin started) =>
          /\ started = {}
          /\ closerpc = "off"
          /\ ~Accepting /\ ~Serving
          /\ \A h \in Handlers : hpc[h] = "off"
          /\ \A c \in Collectors : cpc[c] = "idle"
          /\ exitStatus # <<0>>
    /\ ("http" \in started) => {"bound", "closehandler", "run"} \subseteq started

\* Open has failed: the process has ended with status 1 and never bound the
\* socket
C13_Witness ==
    /\ exitStatus = <<1>>
    /\ "bound" \notin started
    /\ listener = "none" /\ ~sockFile

\* C14: a process that got an interrupt or termination signal after it had
\* bound the socket ends only by the cleanup: when it has ended, the listener
\* was closed, the socket file is gone and the status is 0.
C14_SignalShutsDown ==
    (exitStatus # <<>> /\ sigSeen) =>
        /\ exitStatus = <<0>>
        /\ listener = "closed"
        /\ ~sockFile

\* C15: the store changes only in steps of the handler that holds the mutex,
\* a Collect call reads it only while it holds the mutex, and under fair
\* scheduling a handler that waits for the mutex to store a report gets it
\* and completes the upsert (or the process has ended), however many Collect
\* calls arrive.
C15_WritersNotStarved ==
    /\ [][/\ (metricList' # metricList /\ exitStatus' = <<>>) =>
                (mutex = "locked" /\ holder \in Handlers /\ Upserting(holder))
          /\ \A c \in Collectors :
                (cpc[c] \in {"range", "send"}) => (mutex = "locked" /\ holder = c)
         ]_vars
    /\ \A h \in Handlers :
          (hpc[h] = "lock") ~> (hpc[h] = "read" \/ ~Running)

\* a handler has got the mutex and written its report while both Collect
\* calls wait for the mutex
C15_Witness ==
    \E h \in Handlers :
        /\ hpc[h] = "unlock" /\ holder = h
        /\ \A c \in Collectors : cpc[c] = "lock"

\* Close() has returned and the process has not ended yet
CloseReturned == Running /\ closerpc \in {"remove", "exit"}

C17_MutexBeforeUse ==
    /\ (Running /\ mutex = "nil") =>
          /\ mainpc \in {"register", "newmutex"}
          /\ started = {}
          /\ \A h \in Handlers : hpc[h] = "off"
          /\ \A c \in Collectors : cpc[c] = "idle" /\ emitted[c] = <<>>
    /\ (Running /\ mainpc = "newmutex") =>
          /\ registered = <<uptime, flowsReceived, packetsReceived, bytesReceived>>
          /\ mutex = "nil" /\ holder = None /\ metricList = <<>>
    /\ \A h \in Handlers : (hpc[h] = "lock") => (mutex # "nil")
    /\ \A c \in Collectors : (cpc[c] = "lock") => (mutex # "nil")
    /\ exitStatus # <<2>>

\* a handler holds the mutex for an upsert while a Collect call is in
\* mutex.Lock()
C17_Witness ==
    /\ mutex = "locked" /\ holder \in Handlers
    /\ \E c \in Collectors : cpc[c] = "lock"

\* whoever the bookkeeping names as the holder is inside its critical section
HolderInside ==
    \/ holder \in Collectors /\ InCollect(holder)
    \/ holder \in Handlers /\ Upserting(holder)

\* C18: a Collect call gets the mutex in the one step of its Lock, which
\* finds the mutex free; it holds the mutex from there to its return and at
\* no other time; it returns only by the step that unlocks the mutex it
\* holds; and a locked mutex always has a holder inside its critical section,
\* so a Collect call waiting in Lock waits for a goroutine that is on its way
\* to the Unlock.
C18_LockBalance ==
    [][/\ \A c \in Collectors :
             /\ (holder = c) <=> InCollect(c)
             /\ (holder' = c /\ holder # c) =>
                   /\ cpc[c] = "lock" /\ cpc'[c] = "range"
                   /\ mutex = "unlocked" /\ mutex' = "locked"
             /\ (holder = c /\ holder' # c /\ exitStatus' = <<>>) =>
                   /\ cpc[c] = "unlock" /\ cpc'[c] = "idle"
                   /\ mutex = "locked" /\ mutex' = "unlocked" /\ holder' = None
             /\ (cpc[c] # "idle" /\ cpc'[c] = "idle" /\ exitStatus' = <<>>) =>
                   /\ holder = c /\ holder' = None /\ mutex' = "unlocked"
       /\ (mutex = "locked") <=> (holder # None)
       /\ (mutex = "locked") => HolderInside]_vars

\* a Collect call that has sent samples is about to unlock the mutex while
\* the other call waits in Lock
C18_Witness ==
    \E c, d \in Collectors :
        /\ cpc[c] = "unlock" /\ holder = c /\ emitted[c] # <<>>
        /\ cpc[d] = "lock"

\* C19: a process that has bound the socket ends, by whatever path, only
\* after the listener was closed and the socket file removed.
C19_CleanupOnEveryExit ==
    (exitStatus # <<>> /\ "bound" \in started) =>
        /\ listener = "closed"
        /\ ~sockFile

====
